---- MODULE Spec2Model ----
(***************************************************************************)
(* Detour matrix of mordred (mordred/_detour_matrix.py).                   *)
(*                                                                         *)
(*   LongestSimplePath  exhaustive backtracking search inside one block    *)
(*   CalcDetour         merge of the per-block maps along cut vertices     *)
(*   DetourIndex        int(0.5 * D.sum())                                 *)
(*                                                                         *)
(* Edge weights are integer valued (the descriptor itself builds an        *)
(* unweighted graph, every weight being the default 1.0), so the float     *)
(* additions and subtractions of the search are exact and are modelled on  *)
(* the integers.                                                           *)
(***************************************************************************)
EXTENDS Integers, FiniteSets, Sequences, TLC

\* ------------------------------------------------------------------ bounds
\* largest number of nodes of an input graph
MaxN == 4
\* edge-weight assignments tried for every graph (0: no weight attribute)
MaxScheme == 2
\* largest number of blocks of an arbitrary (possibly malformed) collection
MaxBlocks == 3
\* largest number of nodes of a block of such a collection
MaxBlockSize == 3
\* value at which the count of merge() calls stops growing
MaxMerges == 4

VARIABLES
    G,          \* CalcDetour input graph: [N, E, k]
    Q,          \* CalcDetour.Q: sequence of [ns, lsp]
    nodes,      \* CalcDetour.nodes
    C,          \* CalcDetour.C
    merges,     \* number of merge() calls made by the loop of __call__,
                \* counted up to MaxMerges
    matrix,     \* the array returned by CalcDetour.__call__
    index,      \* the value returned by DetourIndex.calculate
    err,        \* the exception that ended the run, "none" if none
    pc,         \* position of the run
    bcc,        \* LongestSimplePath.G: the block being solved [ns, E, k]
    srcs,       \* G.nodes_iter() in __call__: the sources still to enumerate
    start,      \* LongestSimplePath.start
    result,     \* LongestSimplePath.result
    visited,    \* LongestSimplePath.visited
    distance,   \* LongestSimplePath.distance
    stack,      \* active _search frames: [u, i] (i: next neighbour index)
    lsp         \* the dict under construction in LongestSimplePath.__call__

vars == <<G, Q, nodes, C, merges, matrix, index, err, pc,
          bcc, srcs, start, result, visited, distance, stack, lsp>>

detourVars == <<G, Q, nodes, C, merges, matrix, index, err>>
solverVars == <<bcc, srcs, start, result, visited, distance, stack, lsp>>

\* ----------------------------------------------------------------- helpers
Min(a, b) == IF a <= b THEN a ELSE b
Max(a, b) == IF a >= b THEN a ELSE b

NoNode == -1
EmptyMap == [p \in {} |-> 0]

RECURSIVE SetToSeq(_)
\* the elements of a set of integers in ascending order
SetToSeq(S) ==
    IF S = {} THEN <<>>
    ELSE LET m == CHOOSE x \in S : \A y \in S : x <= y
         IN <<m>> \o SetToSeq(S \ {m})

RECURSIVE SumOver(_, _)
\* sum of f[x] over the elements x of S
SumOver(f, S) ==
    IF S = {} THEN 0
    ELSE LET x == CHOOSE y \in S : TRUE
         IN f[x] + SumOver(f, S \ {x})

Key(a, b) == <<Min(a, b), Max(a, b)>>

Reverse(sq) == [i \in 1 .. Len(sq) |-> sq[Len(sq) + 1 - i]]

\* ------------------------------------------------------------------ graphs
\* an edge is a pair <<a, b>> with a < b
AllEdges(n) == {e \in (0 .. n - 1) \X (0 .. n - 1) : e[1] < e[2]}

\* the weight attribute of edge a-b under assignment k; k = 0 is the graph
\* without weight attributes, for which the solver uses the default 1.0
EdgeData(k, a, b) ==
    IF k = 0 THEN 1
    ELSE ((Min(a, b) + 1) * (Max(a, b) + k)) % (k + 2)

Adjacent(E, a, b) == Key(a, b) \in E /\ a # b

RECURSIVE Reach(_, _, _)
\* nodes of S reachable from the set R inside the subgraph induced by S
Reach(S, E, R) ==
    LET R2 == R \cup {v \in S : \E u \in R : Adjacent(E, u, v)}
    IN IF R2 = R THEN R ELSE Reach(S, E, R2)

Connected(S, E) ==
    S # {} /\ Reach(S, E, {CHOOSE x \in S : TRUE}) = S

\* S induces a biconnected subgraph (a dyad counts as biconnected)
Biconnected(S, E) ==
    /\ Cardinality(S) >= 2
    /\ Connected(S, E)
    /\ Cardinality(S) > 2 => \A x \in S : Connected(S \ {x}, E)

\* node sets of the maximal biconnected components
BiconnectedComponents(n, E) ==
    LET bi == {S \in SUBSET (0 .. n - 1) : Biconnected(S, E)}
    IN {S \in bi : ~ \E T \in bi : S # T /\ S \subseteq T}

\* the subgraph induced on a node set
Subgraph(S, E, k) ==
    [ns |-> S, E |-> {e \in E : e[1] \in S /\ e[2] \in S}, k |-> k]

\* networkx.biconnected_component_subgraphs(G, False)
biconnected_component_subgraphs(g) ==
    {Subgraph(S, g.E, g.k) : S \in BiconnectedComponents(g.N, g.E)}

\* connected graphs with nodes 0..n-1, n <= MaxN, under every weight scheme
ConnectedGraphs ==
    UNION {{[N |-> n, E |-> F, k |-> k] :
               F \in {F \in SUBSET AllEdges(n) : Connected(0 .. n - 1, F)},
               k \in 0 .. MaxScheme} : n \in 1 .. MaxN}

\* ------------------------------------------- LongestSimplePath, as a function
\* LongestSimplePath.__init__: neighbors[u] = [(v, d.get(weight, 1.0)), ...]
neighbors(b) ==
    [u \in b.ns |->
        LET vs == SetToSeq({v \in b.ns : Adjacent(b.E, u, v)})
        IN [i \in 1 .. Len(vs) |-> <<vs[i], EdgeData(b.k, u, vs[i])>>]]

\* Advance keeping the first distance found for v instead of the largest
AdvanceFirstFound(st, v, w) ==
    LET d == st.distance + w
    IN [visited  |-> st.visited \cup {v},
        distance |-> d,
        result   |-> IF st.result[v] = 0
                     THEN [st.result EXCEPT ![v] = d] ELSE st.result]

\* lines 37-42: mark v, add w, raise result[v] to the running distance
Advance(st, v, w) ==
    LET d == st.distance + w
    IN [visited  |-> st.visited \cup {v},
        distance |-> d,
        result   |-> IF d > st.result[v]
                     THEN [st.result EXCEPT ![v] = d] ELSE st.result]

\* Retreat that forgets to subtract the weight
RetreatKeepsDistance(st, v, w) ==
    [st EXCEPT !.visited = @ \ {v}]

\* lines 47-48: unmark v, subtract w
Retreat(st, v, w) ==
    [st EXCEPT !.visited = @ \ {v}, !.distance = @ - w]

RECURSIVE SearchLoop(_, _, _, _, _)
\* the loop of _search(u) from its i-th neighbour on, for the neighbour
\* table nb and the start s; st = [visited, distance, result]; returns the
\* solver state when the loop has finished
SearchLoop(nb, s, u, i, st) ==
    IF i > Len(nb[u]) THEN st
    ELSE LET v == nb[u][i][1]
             w == nb[u][i][2]
         IN IF v \in st.visited THEN SearchLoop(nb, s, u, i + 1, st)
            ELSE LET st1 == Advance(st, v, w)
                     st2 == IF v # s
                            THEN SearchLoop(nb, s, v, 1,
                                   [st1 EXCEPT !.visited = @ \cup {v}])
                            ELSE st1
                 IN SearchLoop(nb, s, u, i + 1, Retreat(st2, v, w))

\* _start whose search does not mark the start as visited
StartResultUnmarked(b, s) ==
    SearchLoop(neighbors(b), s, s, 1,
        [visited |-> {}, distance |-> 0,
         result |-> [n \in b.ns |-> 0]]).result

\* LongestSimplePath._start(s): the result map of the search from s
StartResult(b, s) ==
    SearchLoop(neighbors(b), s, s, 1,
        [visited |-> {s}, distance |-> 0,
         result |-> [n \in b.ns |-> 0]]).result

\* Entries leaving out the pair of the source with itself
EntriesOffDiagonal(s, res) ==
    LET keys == {Key(s, g) : g \in DOMAIN res \ {s}}
    IN [p \in keys |-> res[IF p[1] = s THEN p[2] ELSE p[1]]]

\* the entries one source contributes to the dict of __call__
Entries(s, res) ==
    LET keys == {Key(s, g) : g \in DOMAIN res}
    IN [p \in keys |-> res[IF p[1] = s THEN p[2] ELSE p[1]]]

RECURSIVE FoldSources(_, _, _)
\* the dict comprehension of __call__ over the sources ss, sr[s] being the
\* map _start(s) returns: a later source overwrites a key
FoldSources(sr, ss, acc) ==
    IF ss = <<>> THEN acc
    ELSE FoldSources(sr, Tail(ss), Entries(Head(ss), sr[Head(ss)]) @@ acc)

\* the maps returned by _start(s) for the sources s of the block b
StartResults(b) == [s \in b.ns |-> StartResult(b, s)]

\* LongestSimplePath(bcc, weight)()
LongestSimplePath(b) ==
    FoldSources(StartResults(b), SetToSeq(b.ns), EmptyMap)

\* CalcDetour.__init__: the entry (nodes, lsp) appended to Q for one block
QEntry(b) ==
    LET m == LongestSimplePath(b)
    IN [ns |-> {p[1] : p \in DOMAIN m} \cup {p[2] : p \in DOMAIN m},
        lsp |-> m]

\* every order of a set of blocks as a sequence of Q entries
Orders(bs) ==
    LET es == {QEntry(b) : b \in bs}
        n == Cardinality(es)
    IN {q \in [1 .. n -> es] : \A i, j \in 1 .. n : i # j => q[i] # q[j]}

\* ------------------------------------------------------------- CalcDetour
\* values standing for an exception raised while a weight is computed
UnknownWeight == -1
KeyErrorWeight == -2
TypeErrorWeight == -3

PairKeys(S) == {p \in S \X S : p[1] <= p[2]}

RECURSIVE Scan(_, _, _)
\* the for loop of merge(): Q[-i] for i = 1 .. len(Q), stopping at the first
\* block that meets the merged set; pos is the position of that block in Q
Scan(Qs, nds, i) ==
    IF i > Len(Qs)
    THEN [kind |-> "none", pos |-> 1, common |-> {}]
    ELSE LET pos == Len(Qs) + 1 - i
             common == Qs[pos].ns \cap nds
         IN IF Cardinality(common) = 0 THEN Scan(Qs, nds, i + 1)
            ELSE IF Cardinality(common) > 1
                 THEN [kind |-> "raise", pos |-> pos, common |-> common]
                 ELSE [kind |-> "merge", pos |-> pos, common |-> common]

\* calc_weight taking the larger side across the cut vertex, not the sum
calc_weight_max(i, j, Cm, bl, common) ==
    LET ij == <<i, j>>
    IN IF ij \in DOMAIN Cm THEN Cm[ij]
       ELSE IF ij \in DOMAIN bl THEN bl[ij]
       ELSE IF i = j /\ j = common THEN KeyErrorWeight
       ELSE IF common = NoNode THEN TypeErrorWeight
       ELSE LET ic == Key(i, common)
                jc == Key(j, common)
            IN IF ic \in DOMAIN Cm /\ jc \in DOMAIN bl
                   THEN Max(Cm[ic], bl[jc])
               ELSE IF jc \in DOMAIN Cm /\ ic \in DOMAIN bl
                   THEN Max(Cm[jc], bl[ic])
               ELSE UnknownWeight

\* calc_weight without the case "j on the merged side, i in the new block"
calc_weight_one_sided(i, j, Cm, bl, common) ==
    LET ij == <<i, j>>
    IN IF ij \in DOMAIN Cm THEN Cm[ij]
       ELSE IF ij \in DOMAIN bl THEN bl[ij]
       ELSE IF i = j /\ j = common THEN KeyErrorWeight
       ELSE IF common = NoNode THEN TypeErrorWeight
       ELSE LET ic == Key(i, common)
                jc == Key(j, common)
            IN IF ic \in DOMAIN Cm /\ jc \in DOMAIN bl
                   THEN Cm[ic] + bl[jc]
               ELSE UnknownWeight

\* merge.calc_weight(i, j) for the merged map Cm, the block map bl and the
\* value of the local variable common (NoNode: still the empty set)
calc_weight(i, j, Cm, bl, common) ==
    LET ij == <<i, j>>
    IN IF ij \in DOMAIN Cm THEN Cm[ij]
       ELSE IF ij \in DOMAIN bl THEN bl[ij]
       ELSE IF i = j /\ j = common THEN KeyErrorWeight
       ELSE IF common = NoNode THEN TypeErrorWeight
       ELSE LET ic == Key(i, common)
                jc == Key(j, common)
            IN IF ic \in DOMAIN Cm /\ jc \in DOMAIN bl
                   THEN Cm[ic] + bl[jc]
               ELSE IF jc \in DOMAIN Cm /\ ic \in DOMAIN bl
                   THEN Cm[jc] + bl[ic]
               ELSE UnknownWeight

\* Q.pop(i) where Q.pop(-i) was meant
RemoveAtFront(sq, pos) ==
    LET p == Len(sq) + 1 - pos
    IN SubSeq(sq, 1, p - 1) \o SubSeq(sq, p + 1, Len(sq))

\* self.Q.pop(-i)
RemoveAt(sq, pos) == SubSeq(sq, 1, pos - 1) \o SubSeq(sq, pos + 1, Len(sq))

\* CalcDetour.merge() applied to (Q, nodes, C): the new Q, nodes, C and the
\* exception raised ("none" if none)
mergeStep(Qs, nds, Cm) ==
    LET sc == Scan(Qs, nds, 1)
    IN IF sc.kind = "raise"
       THEN [Q |-> Qs, nodes |-> nds, C |-> Cm, err |-> "MultipleCommonNodes"]
       ELSE LET merged == sc.kind = "merge"
                bl == Qs[sc.pos].lsp
                common == IF merged THEN CHOOSE c \in sc.common : TRUE
                          ELSE NoNode
                Q2 == IF merged THEN RemoveAt(Qs, sc.pos) ELSE Qs
                nodes2 == IF merged THEN nds \cup Qs[sc.pos].ns ELSE nds
                C2 == [p \in PairKeys(nodes2) |->
                          calc_weight(p[1], p[2], Cm, bl, common)]
                bad == {C2[p] : p \in DOMAIN C2} \cap
                         {UnknownWeight, KeyErrorWeight, TypeErrorWeight}
            IN IF bad = {}
               THEN [Q |-> Q2, nodes |-> nodes2, C |-> C2, err |-> "none"]
               ELSE [Q |-> Q2, nodes |-> nodes2, C |-> Cm,
                     err |-> IF UnknownWeight \in bad THEN "UnknownWeight"
                             ELSE IF KeyErrorWeight \in bad THEN "KeyError"
                             ELSE "TypeError"]

\* lines 118-121: the dense symmetric array built from C
Assemble(n, Cm) ==
    [p \in (0 .. n - 1) \X (0 .. n - 1) |-> Cm[Key(p[1], p[2])]]

RECURSIVE whileQ(_, _, _, _)
\* "while self.Q: self.merge()" as a function; fuel bounds the turns
whileQ(Qs, nds, Cm, fuel) ==
    IF Qs = <<>> THEN [err |-> "none", C |-> Cm]
    ELSE IF fuel = 0 THEN [err |-> "no return", C |-> Cm]
    ELSE LET m == mergeStep(Qs, nds, Cm)
         IN IF m.err # "none" THEN [err |-> m.err, C |-> Cm]
            ELSE whileQ(m.Q, m.nodes, m.C, fuel - 1)

\* CalcDetour.__call__ as a function of N and the initial Q
CalcDetour(n, q) ==
    IF n = 1 THEN [err |-> "none", matrix |-> [p \in {<<0, 0>>} |-> 0]]
    ELSE IF q = <<>> THEN [err |-> "IndexError", matrix |-> EmptyMap]
    ELSE LET last == q[Len(q)]
             r == whileQ(SubSeq(q, 1, Len(q) - 1), last.ns, last.lsp, Len(q))
         IN IF r.err # "none" THEN [err |-> r.err, matrix |-> EmptyMap]
            ELSE IF PairKeys(0 .. n - 1) \subseteq DOMAIN r.C
            THEN [err |-> "none", matrix |-> Assemble(n, r.C)]
            ELSE [err |-> "KeyError", matrix |-> EmptyMap]

\* int(x) for x = num / den, den > 0: truncation toward zero
IntTrunc(num, den) ==
    IF num >= 0 THEN num \div den ELSE -((-num) \div den)

\* calculate without the factor 0.5
calculate_whole(D) == IntTrunc(SumOver(D, DOMAIN D), 1)

\* DetourIndex.calculate: int(0.5 * D.sum())
calculate(D) == IntTrunc(SumOver(D, DOMAIN D), 2)

Unset == -1

IdleSolver ==
    /\ bcc = [ns |-> {}, E |-> {}, k |-> 0]
    /\ srcs = <<>>
    /\ start = NoNode
    /\ result = EmptyMap
    /\ visited = {}
    /\ distance = 0
    /\ stack = <<>>
    /\ lsp = EmptyMap

\* CalcDetour(G) constructed on the graph g with the blocks in the order q
Constructed(g, q) ==
    /\ G = g
    /\ Q = q
    /\ nodes = {}
    /\ C = EmptyMap
    /\ merges = 0
    /\ matrix = EmptyMap
    /\ index = Unset
    /\ err = "none"
    /\ pc = "call"
    /\ IdleSolver

\* a connected graph, its blocks enumerated in any order
InitDetour ==
    \E g \in ConnectedGraphs :
        \E q \in Orders(biconnected_component_subgraphs(g)) :
            Constructed(g, q)

\* the blocks a decomposer could hand over for a graph on the nodes 0..n-1:
\* complete subgraphs on 2 .. MaxBlockSize nodes
BlockPool(n, k) ==
    {Subgraph(S, AllEdges(n), k) :
        S \in {T \in SUBSET (0 .. n - 1) :
                 Cardinality(T) >= 2 /\ Cardinality(T) <= MaxBlockSize}}

\* sequences of at most m elements of es
SeqsUpTo(es, m) == UNION {[1 .. n -> es] : n \in 0 .. m}

\* CalcDetour constructed on an arbitrary block collection: at most
\* MaxBlocks blocks in any order, which may overlap in several nodes (or
\* repeat), be disconnected from each other, or leave nodes uncovered; G is
\* their union
InitBlocks ==
    \E n \in 2 .. MaxN, k \in 0 .. MaxScheme :
        \E bs \in SeqsUpTo(BlockPool(n, k), MaxBlocks) :
            Constructed(
                [N |-> n, E |-> UNION {bs[i].E : i \in 1 .. Len(bs)}, k |-> k],
                [i \in 1 .. Len(bs) |-> QEntry(bs[i])])

\* CalcDetour.__call__ up to the loop: lines 110-113
CalcDetour_call ==
    /\ pc = "call"
    /\ IF G.N = 1
       THEN /\ matrix' = [p \in {<<0, 0>>} |-> 0]
            /\ pc' = "done"
            /\ UNCHANGED <<Q, nodes, C, err>>
       ELSE IF Q = <<>>
       THEN /\ err' = "IndexError"
            /\ pc' = "error"
            /\ UNCHANGED <<Q, nodes, C, matrix>>
       ELSE /\ nodes' = Q[Len(Q)].ns
            /\ C' = Q[Len(Q)].lsp
            /\ Q' = SubSeq(Q, 1, Len(Q) - 1)
            /\ pc' = "loop"
            /\ UNCHANGED <<matrix, err>>
    /\ UNCHANGED <<G, merges, index>>
    /\ UNCHANGED solverVars

\* one turn of "while self.Q: self.merge()"
CalcDetour_merge ==
    /\ pc = "loop"
    /\ Q # <<>>
    /\ LET m == mergeStep(Q, nodes, C)
       IN /\ Q' = m.Q
          /\ nodes' = m.nodes
          /\ C' = m.C
          /\ err' = m.err
          /\ pc' = IF m.err = "none" THEN "loop" ELSE "error"
    /\ merges' = IF merges < MaxMerges THEN merges + 1 ELSE merges
    /\ UNCHANGED <<G, matrix, index>>
    /\ UNCHANGED solverVars

\* the loop has ended: lines 118-123
CalcDetour_return ==
    /\ pc = "loop"
    /\ Q = <<>>
    /\ IF PairKeys(0 .. G.N - 1) \subseteq DOMAIN C
       THEN /\ matrix' = Assemble(G.N, C)
            /\ pc' = "done"
            /\ err' = err
       ELSE /\ err' = "KeyError"
            /\ pc' = "error"
            /\ matrix' = matrix
    /\ UNCHANGED <<G, Q, nodes, C, merges, index>>
    /\ UNCHANGED solverVars

\* DetourIndex.calculate(mol, D) on the matrix returned by CalcDetour
DetourIndex_calculate ==
    /\ pc = "done"
    /\ index' = calculate(matrix)
    /\ pc' = "returned"
    /\ UNCHANGED <<G, Q, nodes, C, merges, matrix, err>>
    /\ UNCHANGED solverVars

NextDetour ==
    \/ CalcDetour_call
    \/ CalcDetour_merge
    \/ CalcDetour_return
    \/ DetourIndex_calculate

Spec == InitDetour /\ [][NextDetour]_vars

SpecBlocks == InitBlocks /\ [][NextDetour]_vars

\* the run is never suspended: __call__ is synchronous
SpecBlocksFair == SpecBlocks /\ WF_vars(NextDetour)

\* ------------------------------------- LongestSimplePath, step by step
IdleDetour ==
    /\ G = [N |-> 0, E |-> {}, k |-> 0]
    /\ Q = <<>>
    /\ nodes = {}
    /\ C = EmptyMap
    /\ merges = 0
    /\ matrix = EmptyMap
    /\ index = Unset
    /\ err = "none"

\* LongestSimplePath(bcc, weight) constructed on a block of a connected graph
InitSolver ==
    \E g \in ConnectedGraphs :
        \E b \in biconnected_component_subgraphs(g) :
            /\ bcc = b
            /\ srcs \in {SetToSeq(b.ns), Reverse(SetToSeq(b.ns))}
            /\ start = NoNode
            /\ result = EmptyMap
            /\ visited = {}
            /\ distance = 0
            /\ stack = <<>>
            /\ lsp = EmptyMap
            /\ pc = "lsp"
            /\ IdleDetour

SolverState == [visited |-> visited, distance |-> distance, result |-> result]

Top == stack[Len(stack)]
TopNeighbors == neighbors(bcc)[Top.u]
NextIndex(sq) == [sq EXCEPT ![Len(sq)].i = @ + 1]

\* __call__ takes the next source s and _start(s) enters _search(s):
\* lines 24-28 and 32
LSP_start ==
    /\ pc = "lsp"
    /\ srcs # <<>>
    /\ LET s == Head(srcs)
       IN
        /\ srcs' = Tail(srcs)
        /\ start' = s
        /\ result' = [n \in bcc.ns |-> 0]
        /\ visited' = {s}
        /\ distance' = 0
        /\ stack' = <<[u |-> s, i |-> 1]>>
    /\ pc' = "search"
    /\ UNCHANGED <<bcc, lsp>>
    /\ UNCHANGED detourVars

\* lines 33-35: the next neighbour is already visited
LSP_search_skip ==
    /\ pc = "search"
    /\ Top.i <= Len(TopNeighbors)
    /\ TopNeighbors[Top.i][1] \in visited
    /\ stack' = NextIndex(stack)
    /\ UNCHANGED <<bcc, srcs, start, result, visited, distance, lsp, pc>>
    /\ UNCHANGED detourVars

\* lines 37-45: the step to an unvisited neighbour v, entering _search(v)
\* (or, were v the start, undoing the step at once: lines 47-48)
LSP_search_visit ==
    /\ pc = "search"
    /\ Top.i <= Len(TopNeighbors)
    /\ LET v == TopNeighbors[Top.i][1]
           w == TopNeighbors[Top.i][2]
           st1 == Advance(SolverState, v, w)
           st2 == Retreat(st1, v, w)
       IN /\ v \notin visited
          /\ result' = st1.result
          /\ IF v # start
             THEN /\ visited' = st1.visited \cup {v}
                  /\ distance' = st1.distance
                  /\ stack' = Append(stack, [u |-> v, i |-> 1])
             ELSE /\ visited' = st2.visited
                  /\ distance' = st2.distance
                  /\ stack' = NextIndex(stack)
    /\ UNCHANGED <<bcc, srcs, start, lsp, pc>>
    /\ UNCHANGED detourVars

\* _search(v) returns to its caller, which undoes the step: lines 47-48
LSP_search_return ==
    /\ pc = "search"
    /\ Top.i > Len(TopNeighbors)
    /\ Len(stack) > 1
    /\ LET rest == SubSeq(stack, 1, Len(stack) - 1)
           caller == rest[Len(rest)]
           step == neighbors(bcc)[caller.u][caller.i]
           st == Retreat(SolverState, step[1], step[2])
       IN /\ visited' = st.visited
          /\ distance' = st.distance
          /\ stack' = NextIndex(rest)
    /\ UNCHANGED <<bcc, srcs, start, result, lsp, pc>>
    /\ UNCHANGED detourVars

\* _search(s) returns to _start(s), which returns result; __call__ stores
\* its items under the unordered pairs: lines 29 and 51-53
LSP_start_return ==
    /\ pc = "search"
    /\ Top.i > Len(TopNeighbors)
    /\ Len(stack) = 1
    /\ stack' = <<>>
    /\ lsp' = Entries(start, result) @@ lsp
    /\ pc' = "lsp"
    /\ UNCHANGED <<bcc, srcs, start, result, visited, distance>>
    /\ UNCHANGED detourVars

\* every source has been enumerated: __call__ returns the dict
LSP_call_return ==
    /\ pc = "lsp"
    /\ srcs = <<>>
    /\ pc' = "lsp_done"
    /\ UNCHANGED solverVars
    /\ UNCHANGED detourVars

NextSolver ==
    \/ LSP_start
    \/ LSP_search_skip
    \/ LSP_search_visit
    \/ LSP_search_return
    \/ LSP_start_return
    \/ LSP_call_return

SpecSolver == InitSolver /\ [][NextSolver]_vars

\* the solver on one block and CalcDetour on the blocks of a graph
SpecAll == (InitSolver \/ InitDetour) /\ [][NextSolver \/ NextDetour]_vars

\* ------------------------------------------------- independent definitions
RECURSIVE Grow(_, _, _)
\* the simple paths obtained from the paths ps by appending up to m nodes
Grow(n, E, ps) ==
    LET longer == {Append(p, v) : <<p, v>> \in
                     {t \in ps \X (0 .. n - 1) :
                        /\ Adjacent(E, t[1][Len(t[1])], t[2])
                        /\ \A a \in 1 .. Len(t[1]) : t[1][a] # t[2]}}
    IN IF longer = {} THEN ps ELSE ps \cup Grow(n, E, longer)

\* all simple paths (sequences of distinct nodes, consecutive ones joined by
\* an edge) of the graph with edge set E on the nodes 0..n-1
SimplePaths(n, E) == Grow(n, E, {<<v>> : v \in 0 .. n - 1})

RECURSIVE PathWeight(_, _)
PathWeight(k, p) ==
    IF Len(p) < 2 THEN 0
    ELSE EdgeData(k, p[1], p[2]) + PathWeight(k, Tail(p))

MaxOf(ws) == CHOOSE w \in ws : \A x \in ws : x <= w

\* the maximum weight of a path of ps that joins i and j
LongestIn(ps, k, i, j) ==
    MaxOf({PathWeight(k, p) : p \in {q \in ps : q[1] = i /\ q[Len(q)] = j}})

NumBlocks(g) == Cardinality(BiconnectedComponents(g.N, g.E))

Returned == pc \in {"done", "returned"}

\* the unweighted 4-cycle 0-1-2-3-0
FourCycle ==
    [N |-> 4, E |-> {<<0, 1>>, <<1, 2>>, <<2, 3>>, <<0, 3>>}, k |-> 0]

\* ------------------------------------------------------------------ claims
\* C1: for a connected graph with N >= 2 nodes, every off-diagonal entry
\* (i, j) of the returned matrix is the maximum weight of a simple path
\* between i and j in the whole graph.
C1_LongestSimplePathMatrix ==
    (Returned /\ G.N >= 2) =>
        \A ps \in {SimplePaths(G.N, G.E)} :
            \A i, j \in 0 .. G.N - 1 :
               i # j => matrix[<<i, j>>] = LongestIn(ps, G.k, i, j)

\* the 4-cycle has been solved: adjacent pairs 3, opposite pairs 2
C1_Witness ==
    /\ pc = "done"
    /\ G = FourCycle
    /\ matrix[<<0, 1>>] = 3 /\ matrix[<<1, 2>>] = 3
    /\ matrix[<<2, 3>>] = 3 /\ matrix[<<3, 0>>] = 3
    /\ matrix[<<0, 2>>] = 2 /\ matrix[<<1, 3>>] = 2

\* C2: whatever the order of the blocks in Q, the run returns the same
\* matrix: the matrix returned equals the one every order of the blocks
\* of the graph gives.
C2_OrderIndependent ==
    Returned =>
        \A q \in Orders(biconnected_component_subgraphs(G)) :
            CalcDetour(G.N, q) = [err |-> "none", matrix |-> matrix]

\* a run over three blocks or more (six orders at least) has returned
C2_Witness ==
    /\ pc = "done"
    /\ NumBlocks(G) >= 3
    /\ merges = NumBlocks(G) - 1

\* two blocks of the collection share two nodes or more
SharesTwo(Qs) ==
    \E i, j \in 1 .. Len(Qs) :
        i # j /\ Cardinality(Qs[i].ns \cap Qs[j].ns) >= 2

\* C3: a run on a collection in which two blocks share two nodes or more
\* raises MultipleCommonNodes, whatever the order of the blocks.
C3_SharedPairRaises ==
    (pc = "call" /\ SharesTwo(Q)) ~>
        (pc = "error" /\ err = "MultipleCommonNodes")

\* every block left in Q is disjoint from the merged set
AllDisjoint == \A i \in 1 .. Len(Q) : Q[i].ns \cap nodes = {}

\* C4: a merge() turn that finds every block of Q disjoint from the merged
\* set ends the run in an error.
C4_DisjointTurnIsError ==
    [][(pc = "loop" /\ Q # <<>> /\ AllDisjoint /\ merges' = merges + 1)
          => pc' = "error"]_vars

\* C5: the diagonal is zero throughout: the search from start keeps start
\* visited and result[start] = 0, every stored pair (i, i) is 0, every
\* merge keeps C[(i, i)] = 0 and the returned matrix has a zero diagonal.
C5_ZeroDiagonal ==
    /\ pc = "search" => (start \in visited /\ result[start] = 0)
    /\ \A p \in DOMAIN lsp : p[1] = p[2] => lsp[p] = 0
    /\ pc \in {"loop", "done", "returned"} =>
           \A i \in nodes : C[<<i, i>>] = 0
    /\ Returned => \A i \in 0 .. G.N - 1 : matrix[<<i, i>>] = 0

\* a matrix assembled after merges across cut vertices
C5_Witness ==
    /\ pc = "done"
    /\ merges >= 2
    /\ \A i \in 0 .. G.N - 1 : i \in nodes /\ matrix[<<i, i>>] = 0

C7_OneBlockPerMerge ==
    [][/\ (pc = "loop" /\ Q # <<>>) =>
            /\ pc' = "loop" /\ err' = "none" /\ merges' = merges + 1
            /\ \E pos \in 1 .. Len(Q) :
                  /\ Cardinality(Q[pos].ns \cap nodes) = 1
                  /\ Q' = SubSeq(Q, 1, pos - 1) \o SubSeq(Q, pos + 1, Len(Q))
                  /\ nodes' = nodes \cup Q[pos].ns
       /\ (pc = "loop" /\ Q = <<>>) => merges = NumBlocks(G) - 1
      ]_vars

\* the loop has ended after taking the blocks one by one
C7_Witness ==
    /\ pc = "done"
    /\ NumBlocks(G) = 3
    /\ merges = 2
    /\ nodes = 0 .. G.N - 1

\* every order in which the elements of S can be enumerated
Enumerations(S) ==
    LET n == Cardinality(S)
    IN {q \in [1 .. n -> S] : \A i, j \in 1 .. n : i # j => q[i] # q[j]}

\* C8: the value stored for a pair {s, g} is the maximum of the two
\* directional results, which agree, and every order of enumerating the
\* sources gives the dict that was built.
C8_StoredIsMaxOfDirections ==
    pc = "lsp_done" =>
        \A sr \in {StartResults(bcc)} :
           /\ \A s, g \in bcc.ns :
                 /\ lsp[Key(s, g)] = Max(sr[s][g], sr[g][s])
                 /\ sr[s][g] = sr[g][s]
           /\ \A ss \in Enumerations(bcc.ns) :
                 FoldSources(sr, ss, EmptyMap) = lsp

\* a block of three nodes or more solved with the lowest node as the last
\* source, so that for its pairs the lower node wrote last
C8_Witness ==
    /\ pc = "lsp_done"
    /\ Cardinality(bcc.ns) >= 3
    /\ \A n \in bcc.ns : start <= n
    /\ \E p \in DOMAIN lsp : lsp[p] >= 2

PathNodes == {stack[a].u : a \in 1 .. Len(stack)}

RECURSIVE PathDistance(_)
\* weight of the path held by the first a frames
PathDistance(a) ==
    IF a < 2 THEN 0
    ELSE PathDistance(a - 1) + EdgeData(bcc.k, stack[a - 1].u, stack[a].u)

\* C9: throughout the search the frames hold a simple path from start, the
\* visited set is the node set of that path and the running distance its
\* weight: every step taken is undone exactly when it returns.
C9_BacktrackRestores ==
    pc = "search" =>
        /\ stack[1].u = start
        /\ \A a, b \in 1 .. Len(stack) : a # b => stack[a].u # stack[b].u
        /\ \A a \in 1 .. Len(stack) - 1 :
               Adjacent(bcc.E, stack[a].u, stack[a + 1].u)
        /\ visited = PathNodes
        /\ distance = PathDistance(Len(stack))

\* a recursive step below the second frame has returned: a node off the
\* current path was reached at a larger distance than the current one
C9_Witness ==
    /\ pc = "search"
    /\ Len(stack) = 2
    /\ Top.i > 1
    /\ distance > 0
    /\ \E n \in bcc.ns \ visited : result[n] > distance

\* C10: after the first block is taken and after every merge() the keys of
\* C are exactly the pairs (i, j), i <= j, of the merged nodes, and the
\* UnknownWeight error is never raised.
C10_KeysCoverMergedPairs ==
    /\ pc \in {"loop", "done", "returned"} =>
           (G.N >= 2 => DOMAIN C = PairKeys(nodes))
    /\ err # "UnknownWeight"

\* a block has been merged across a cut vertex and another is still in Q
C10_Witness ==
    /\ pc = "loop"
    /\ merges >= 1
    /\ Q # <<>>
    /\ DOMAIN C = PairKeys(nodes)

\* the dict built step by step is the one the function LongestSimplePath
\* gives
SolverAgrees == pc = "lsp_done" => lsp = LongestSimplePath(bcc)

====
